---- MODULE Spec2Model ----
(***************************************************************************)
(* Campus funding manager: the in-memory engine of campus_funding, in its  *)
(* two front ends (main.py, the CLI loop; app.py, the Flask handlers).     *)
(* State: users_set, users_map, requests_map, bst, heap, approved_q,       *)
(* req_counter and the data.json document written by save_state; whether   *)
(* the process is alive and data.json writable; and the submit() handlers  *)
(* in flight in the threads of the Flask server.                           *)
(*                                                                         *)
(* Representation                                                          *)
(*  - a str user id, name, role or form text is a TLA+ string;             *)
(*  - a request id "R<n>" is the sequence of its code points, so that the  *)
(*    str comparison heapq makes on ids is computed character by character;*)
(*  - a float is a record [nan, v]: float("nan") is a float like any other *)
(*    and every comparison with it is False;                               *)
(*  - a dict is the sequence of its values in insertion order;             *)
(*  - a reference to a FundingRequest object is the id of that object: the *)
(*    heap, the deque and the BST hold references, and the one mutable     *)
(*    field (status) is read through requests_map;                         *)
(*  - None (an empty subtree) is the empty tuple;                          *)
(*  - data.json holds the two numbers of a request as the text json.dump   *)
(*    writes for them, scanned back by load_state.                         *)
(***************************************************************************)
EXTENDS Integers, Sequences, FiniteSets, TLC

(***************************************************************************)
(* Bounds of the model.                                                    *)
(***************************************************************************)
\* requests submitted in one run, and length of approved_q (the web engine
\* can enqueue a request repeatedly), in the general specification
MaxReq == 2
MaxQueue == 2
\* requests submitted in one run of the urgency specification
MaxHeap == 4
\* requests submitted, and length of approved_q, in one run of the funding
\* specification
MaxFund == 3
\* requests submitted in one run of the amount specification
MaxTree == 3
\* requests submitted in one run of the tie-break specification
MaxTie == 12

(***************************************************************************)
(* Python values                                                           *)
(***************************************************************************)
None == <<>>

F(x) == [nan |-> FALSE, v |-> x]

NaN == [nan |-> TRUE, v |-> 0]

\* faulty variant: "<=" where the code has "<"
FloatLtOrEq(a, b) == ~a.nan /\ ~b.nan /\ a.v <= b.v

\* float.__lt__ and float.__ge__: False whenever an operand is nan
FloatLt(a, b) == ~a.nan /\ ~b.nan /\ a.v < b.v

FloatGe(a, b) == ~a.nan /\ ~b.nan /\ a.v >= b.v

\* float(text): the texts that parse, with their values; any other text
\* raises ValueError
FloatOf ==
  [t \in {"10", "50", "100", "-5", "nan"} |->
     CASE t = "10" -> F(10)
       [] t = "50" -> F(50)
       [] t = "100" -> F(100)
       [] t = "-5" -> F(-5)
       [] OTHER -> NaN]

FloatParses(t) == t \in DOMAIN FloatOf

\* int(text): the texts that parse, with their values
IntOf ==
  [t \in {"1", "5", "9", "-2"} |->
     CASE t = "1" -> 1
       [] t = "5" -> 5
       [] t = "9" -> 9
       [] OTHER -> -2]

IntParses(t) == t \in DOMAIN IntOf

\* str.lower() on the role and decision texts
Lower(t) ==
  CASE t = "Admin" -> "admin"
    [] t = "Y" -> "y"
    [] OTHER -> t

(***************************************************************************)
(* Request ids: f"R{req_counter}" as a sequence of code points             *)
(***************************************************************************)
RECURSIVE Digits(_)
Digits(n) ==
  IF n < 10 THEN <<48 + n>> ELSE Append(Digits(n \div 10), 48 + (n % 10))

Rid(n) == <<82>> \o Digits(n)

\* str.__lt__: lexicographic by code point, a proper prefix is smaller
RECURSIVE StrLt(_, _)
StrLt(s, t) ==
  IF t = <<>> THEN FALSE
  ELSE IF s = <<>> THEN TRUE
  ELSE IF Head(s) # Head(t) THEN Head(s) < Head(t)
  ELSE StrLt(Tail(s), Tail(t))

(***************************************************************************)
(* dict helpers: a dict is the sequence of its values, each with an id     *)
(***************************************************************************)
Keys(d) == {d[i].id : i \in 1..Len(d)}

\* d[key], for a key of d
Get(d, key) == d[CHOOSE i \in 1..Len(d) : d[i].id = key]

\* d[rec.id] = rec: replaces in place when the key exists, appends otherwise
DictSet(d, rec) ==
  IF rec.id \in Keys(d)
    THEN [i \in 1..Len(d) |-> IF d[i].id = rec.id THEN rec ELSE d[i]]
    ELSE Append(d, rec)

\* req.status = st, seen through requests_map
SetStatus(rm, rid, st) ==
  [i \in 1..Len(rm) |-> IF rm[i].id = rid THEN [rm[i] EXCEPT !.status = st] ELSE rm[i]]

(***************************************************************************)
(* structures.py: the heap helpers.  A heap item is the tuple              *)
(* (-req.urgency, req.id, req); heapq keeps the list a binary min-heap of  *)
(* these tuples (list index i here is Python's index i-1).                 *)
(***************************************************************************)
\* faulty variant: the urgency pushed without the minus sign
HeapItemPlain(req) == <<req.urgency, req.id, req.id>>

HeapItem(req) == <<0 - req.urgency, req.id, req.id>>

\* tuple.__lt__ on heap items: the first differing component decides; two
\* items that agree on urgency and id hold the same object and are equal
ItemLt(a, b) ==
  IF a[1] # b[1] THEN a[1] < b[1]
  ELSE IF a[2] # b[2] THEN StrLt(a[2], b[2])
  ELSE FALSE

\* heapq._siftdown(heap, startpos, pos), carrying newitem = heap[pos]
RECURSIVE siftdown(_, _, _, _)
siftdown(h, startpos, pos, newitem) ==
  IF pos > startpos /\ ItemLt(newitem, h[pos \div 2])
    THEN siftdown([h EXCEPT ![pos] = h[pos \div 2]], startpos, pos \div 2, newitem)
    ELSE [h EXCEPT ![pos] = newitem]

\* heapq._siftup(heap, pos): bubble the smaller child up to a leaf, then
\* sift newitem down from there
RECURSIVE siftup(_, _, _, _)
siftup(h, startpos, pos, newitem) ==
  LET childpos == 2 * pos
      rightpos == childpos + 1
      c == IF rightpos <= Len(h) /\ ~ItemLt(h[childpos], h[rightpos])
             THEN rightpos ELSE childpos
  IN IF childpos <= Len(h)
       THEN siftup([h EXCEPT ![pos] = h[c]], startpos, c, newitem)
       ELSE siftdown([h EXCEPT ![pos] = newitem], startpos, pos, newitem)

\* heapq.heappush(heap, item)
heappush(h, item) == siftdown(Append(h, item), 1, Len(h) + 1, item)

\* faulty variant: the first element dropped and the rest left as it is
heappop_unsifted(h) == SubSeq(h, 2, Len(h))

\* heapq.heappop(heap): the list left after the pop (the item returned is
\* heap[0], or the last element when it is the only one)
heappop(h) ==
  LET lastelt == h[Len(h)]
      rest == SubSeq(h, 1, Len(h) - 1)
  IN IF rest = <<>> THEN rest ELSE siftup(rest, 1, 1, lastelt)

push_heap(h, req) == heappush(h, HeapItem(req))

\* pop_heap(heap): the request returned (None on an empty heap)
pop_heap_req(h) == IF h = <<>> THEN None ELSE h[1][3]

\* pop_heap(heap): the heap afterwards
pop_heap(h) == IF h = <<>> THEN h ELSE heappop(h)

(***************************************************************************)
(* structures.py: RequestBST.  A node is <<req, left, right>>.             *)
(***************************************************************************)
BSTNode(r) == <<r, None, None>>

\* RequestBST.insert._insert(node, r); rm gives the amount of each request
RECURSIVE bst_insert(_, _, _)
bst_insert(node, r, rm) ==
  IF node = None THEN BSTNode(r)
  ELSE IF FloatLt(Get(rm, r).amount, Get(rm, node[1]).amount)
    THEN <<node[1], bst_insert(node[2], r, rm), node[3]>>
    ELSE <<node[1], node[2], bst_insert(node[3], r, rm)>>

\* RequestBST.inorder
RECURSIVE inorder(_)
inorder(node) ==
  IF node = None THEN <<>>
  ELSE inorder(node[2]) \o <<node[1]>> \o inorder(node[3])

(***************************************************************************)
(* structures.py: the approved queue (a deque)                             *)
(***************************************************************************)
enqueue(q, r) == Append(q, r)

\* deque([x for x in approved_q if x.id != rid])
RECURSIVE remove_by_id(_, _)
remove_by_id(q, rid) ==
  IF q = <<>> THEN <<>>
  ELSE IF Head(q) # rid THEN <<Head(q)>> \o remove_by_id(Tail(q), rid)
  ELSE remove_by_id(Tail(q), rid)

(***************************************************************************)
(* storage.py.  data.json is held as the JSON document json.dump writes:   *)
(* the strings as they are, the two numbers of a request as the text of    *)
(* their repr (code points), which json.load scans back into an int or a   *)
(* float.  The floats of the model are whole numbers and nan.              *)
(***************************************************************************)
\* int.__repr__
int_repr(n) == IF n < 0 THEN <<45>> \o Digits(0 - n) ELSE Digits(n)

\* float.__repr__ as json.dump uses it (allow_nan): "NaN", or "<n>.0"
float_repr(a) == IF a.nan THEN <<78, 97, 78>> ELSE int_repr(a.v) \o <<46, 48>>

\* the payload built by save_state (storage.py:17-25)
payload(um, rm) == [users |-> um, requests |-> rm]

\* json.dump(payload, f)
json_dump(p) ==
  [users |-> p.users,
   requests |->
     [i \in 1..Len(p.requests) |->
        [id |-> p.requests[i].id,
         student_id |-> p.requests[i].student_id,
         amount |-> float_repr(p.requests[i].amount),
         urgency |-> int_repr(p.requests[i].urgency),
         status |-> p.requests[i].status]]]

\* save_state: the document written to data.json
save_state(um, rm) == json_dump(payload(um, rm))

\* load_state on a missing or unreadable file
NoFile == [users |-> <<>>, requests |-> <<>>]

\* int("<digits>") of the digits s
RECURSIVE IntOfDigits(_)
IntOfDigits(s) ==
  IF s = <<>> THEN 0
  ELSE 10 * IntOfDigits(SubSeq(s, 1, Len(s) - 1)) + (s[Len(s)] - 48)

\* int("-<digits>") or int("<digits>")
SignedInt(s) == IF Head(s) = 45 THEN 0 - IntOfDigits(Tail(s)) ELSE IntOfDigits(s)

\* the json scanner on a number token: NaN is the float nan, a token with a
\* fraction is a float (here always ".0"), any other token is an int
json_number(tok) ==
  IF tok = <<78, 97, 78>> THEN [kind |-> "float", nan |-> TRUE, v |-> 0]
  ELSE IF \E i \in 1..Len(tok) : tok[i] = 46
    THEN LET dot == CHOOSE i \in 1..Len(tok) : tok[i] = 46
         IN [kind |-> "float", nan |-> FALSE, v |-> SignedInt(SubSeq(tok, 1, dot - 1))]
  ELSE [kind |-> "int", nan |-> FALSE, v |-> SignedInt(tok)]

\* "try: amt = float(r.get('amount', 0))": float() of an int or a float
load_amount(x) == IF x.nan THEN NaN ELSE F(x.v)

\* "try: urg = int(r.get('urgency', 1)) except: urg = 1": int(nan) raises
load_urgency(x) == IF x.nan THEN 1 ELSE x.v

\* faulty variant: the status of the file ignored, every request loaded with
\* the default status of FundingRequest
load_request_fresh(r) ==
  [id |-> r.id, student_id |-> r.student_id,
   amount |-> load_amount(json_number(r.amount)),
   urgency |-> load_urgency(json_number(r.urgency)),
   status |-> "submitted"]

\* FundingRequest(id=r["id"], student_id=..., amount=amt, urgency=urg, status=...)
load_request(r) ==
  [id |-> r.id, student_id |-> r.student_id,
   amount |-> load_amount(json_number(r.amount)),
   urgency |-> load_urgency(json_number(r.urgency)),
   status |-> r.status]

\* "for r in payload.get('requests', []): requests_map[r['id']] = ..."
RECURSIVE load_requests(_, _)
load_requests(rs, k) ==
  IF k = 0 THEN <<>> ELSE DictSet(load_requests(rs, k - 1), load_request(rs[k]))

\* "for u in payload.get('users', []): users_map[u['id']] = User(...)"
RECURSIVE load_users(_, _)
load_users(us, k) ==
  IF k = 0 THEN <<>> ELSE DictSet(load_users(us, k - 1), us[k])

\* load_state: the pair (users_map, requests_map) read from the document
load_state(file) ==
  [users |-> load_users(file.users, Len(file.users)),
   requests |-> load_requests(file.requests, Len(file.requests))]

\* the request counter recomputed at startup: rid.startswith("R") and
\* rid[1:].isdigit(), then int(rid[1:])
IsRDigits(rid) ==
  /\ Len(rid) >= 2
  /\ rid[1] = 82
  /\ \A i \in 2..Len(rid) : rid[i] \in 48..57

RECURSIVE MaxSuffix(_, _)
MaxSuffix(rm, maxn) ==
  IF rm = <<>> THEN maxn
  ELSE LET rid == Head(rm).id
           n == IntOfDigits(Tail(rid))
       IN MaxSuffix(Tail(rm), IF IsRDigits(rid) /\ n > maxn THEN n ELSE maxn)

\* faulty variant: the counter left at its initial value after a load
StartCounterOne(rm) == 1

StartCounter(rm) == IF rm = <<>> THEN 1 ELSE MaxSuffix(rm, 0) + 1

\* the startup loop "for r in requests_map.values()": the BST, the heap and
\* the approved queue after the first k requests of rm
RECURSIVE StartBst(_, _)
StartBst(rm, k) ==
  IF k = 0 THEN None ELSE bst_insert(StartBst(rm, k - 1), rm[k].id, rm)

\* faulty variant: every loaded request pushed, whatever its status
RECURSIVE StartHeapAll(_, _)
StartHeapAll(rm, k) ==
  IF k = 0 THEN <<>> ELSE push_heap(StartHeapAll(rm, k - 1), rm[k])

RECURSIVE StartHeap(_, _)
StartHeap(rm, k) ==
  IF k = 0 THEN <<>>
  ELSE IF rm[k].status = "submitted" THEN push_heap(StartHeap(rm, k - 1), rm[k])
  ELSE StartHeap(rm, k - 1)

\* faulty variant: the approved requests put at the front of the deque
RECURSIVE StartQueueFront(_, _)
StartQueueFront(rm, k) ==
  IF k = 0 THEN <<>>
  ELSE IF rm[k].status = "approved"
    THEN <<rm[k].id>> \o StartQueueFront(rm, k - 1)
  ELSE StartQueueFront(rm, k - 1)

RECURSIVE StartQueue(_, _)
StartQueue(rm, k) ==
  IF k = 0 THEN <<>>
  ELSE IF rm[k].status = "approved" THEN enqueue(StartQueue(rm, k - 1), rm[k].id)
  ELSE StartQueue(rm, k - 1)

(***************************************************************************)
(* models.py                                                               *)
(***************************************************************************)
User(uid, name, role) == [id |-> uid, name |-> name, role |-> role]

FundingRequest(rid, sid, amount, urgency) ==
  [id |-> rid, student_id |-> sid, amount |-> amount, urgency |-> urgency,
   status |-> "submitted"]

Roles == {"student", "admin", "donor"}

(***************************************************************************)
(* State                                                                   *)
(***************************************************************************)
VARIABLES
  engine,        \* "cli" (main.py) or "web" (app.py): which front end runs
  users_set,     \* set of registered user ids
  users_map,     \* dict user id -> User
  requests_map,  \* dict request id -> FundingRequest
  bst,           \* RequestBST.root
  heap,          \* the heapq list
  approved_q,    \* the deque of approved requests
  req_counter,   \* the number of the next request id
  disk,          \* data.json
  last,          \* what the last operation reported: its result, the request
                 \* it names and, for a donation, the amount offered
  running,       \* the process is alive (FALSE after an uncaught exception
                 \* has ended main.py)
  writable,      \* open(data.json, "w") succeeds
  threads        \* the submit() handlers in flight in the Flask server, one
                 \* per worker thread: their position and their locals

mem == <<users_set, users_map, requests_map, bst, heap, approved_q, req_counter>>

vars == <<engine, users_set, users_map, requests_map, bst, heap, approved_q,
          req_counter, disk, last, running, writable, threads>>

\* what no handler of the model changes while it runs to completion
env == <<engine, writable, threads>>

\* the worker threads of the Flask development server that run submit()
NumThreads == 2

Threads == 1..NumThreads

\* a worker thread with no submit() in flight
Idle ==
  [pc |-> "idle", sid |-> "", amount |-> F(0), urgency |-> 0, rid |-> <<>>, n |-> 0]

\* the results an operation reports as an error message
Errors ==
  {"ValidationError", "DuplicateUser", "RoleError", "NotFound", "Conflict",
   "Empty", "NoApproved", "InsufficientFunds", "AlreadyHandled"}

Report(result, req, donation) ==
  last' = [result |-> result, req |-> req, donation |-> donation]

\* an operation that prints or flashes its message and returns
Fail(result) ==
  /\ Report(result, None, None)
  /\ UNCHANGED <<env, running, mem, disk>>

\* faulty variant: the handler ends without its save_state call
PersistNothing(um, rm, result, req, donation) ==
  /\ Report(result, req, donation)
  /\ UNCHANGED <<disk, running>>

\* the save_state call that ends a handler, and the message of the handler.
\* open() raises OSError on an unwritable file and leaves it as it was; no
\* caller catches it: main.py ends with the traceback, Flask answers 500
\* and serves the next request.
Persist(um, rm, result, req, donation) ==
  IF writable
    THEN /\ disk' = save_state(um, rm)
         /\ Report(result, req, donation)
         /\ UNCHANGED running
    ELSE /\ UNCHANGED disk
         /\ Report("OSError", req, donation)
         /\ running' = (engine = "web")

\* the front end e is up, and no submit() of the server is half-way
Serving(e) ==
  /\ running
  /\ engine = e
  /\ \A t \in Threads : threads[t].pc = "idle"

\* "uid not in users_map or users_map[uid].role != role", negated
HasRole(um, uid, role) == uid \in Keys(um) /\ Get(um, uid).role = role

(***************************************************************************)
(* Startup: load_state, then the rebuild of app.py:25-47 / main.py:45-67   *)
(***************************************************************************)
\* a data.json left by an earlier run that registered one user of each role
SeedFile ==
  [users |-> <<User("s1", "Ana", "student"), User("a1", "Bo", "admin"),
               User("d1", "Cy", "donor")>>,
   requests |-> <<>>]

\* the seven structures after the startup code has run on data.json = file
StartState(file) ==
  LET loaded == load_state(file)
      rm == loaded.requests
  IN [users_set |-> Keys(loaded.users),
      users_map |-> loaded.users,
      requests_map |-> rm,
      bst |-> StartBst(rm, Len(rm)),
      heap |-> StartHeap(rm, Len(rm)),
      approved_q |-> StartQueue(rm, Len(rm)),
      req_counter |-> StartCounter(rm)]

Startup(file) ==
  /\ disk = file
  /\ users_map = StartState(file).users_map
  /\ users_set = StartState(file).users_set
  /\ requests_map = StartState(file).requests_map
  /\ bst = StartState(file).bst
  /\ heap = StartState(file).heap
  /\ approved_q = StartState(file).approved_q
  /\ req_counter = StartState(file).req_counter
  /\ last = [result |-> "started", req |-> None, donation |-> None]
  /\ running = TRUE
  /\ writable = TRUE
  /\ threads = [t \in Threads |-> Idle]

(***************************************************************************)
(* Steps shared by the two front ends                                      *)
(***************************************************************************)
\* users_set.add(uid); users_map[uid] = User(...); save_state(...)
DoRegister(uid, name, role) ==
  /\ users_set' = users_set \cup {uid}
  /\ users_map' = DictSet(users_map, User(uid, name, role))
  /\ Persist(users_map', requests_map, "registered", None, None)
  /\ UNCHANGED <<env, requests_map, bst, heap, approved_q, req_counter>>

\* rid = f"R{req_counter}"; req_counter += 1; requests_map[rid] = fr;
\* bst.insert(fr); push_heap(heap, fr); save_state(...)
DoSubmit(sid, amount, urgency) ==
  LET rid == Rid(req_counter)
      fr == FundingRequest(rid, sid, amount, urgency)
  IN /\ req_counter' = req_counter + 1
     /\ requests_map' = DictSet(requests_map, fr)
     /\ bst' = bst_insert(bst, rid, requests_map')
     /\ heap' = push_heap(heap, fr)
     /\ Persist(users_map, requests_map', "submitted", rid, None)
     /\ UNCHANGED <<env, users_set, users_map, approved_q>>

\* req.status = "approved"; enqueue(approved_q, req); save_state(...)
DoApprove(rid, h) ==
  /\ requests_map' = SetStatus(requests_map, rid, "approved")
  /\ approved_q' = enqueue(approved_q, rid)
  /\ heap' = h
  /\ Persist(users_map, requests_map', "approved", rid, None)
  /\ UNCHANGED <<env, users_set, users_map, bst, req_counter>>

\* req.status = "rejected"; save_state(...)
DoReject(rid, h) ==
  /\ requests_map' = SetStatus(requests_map, rid, "rejected")
  /\ heap' = h
  /\ Persist(users_map, requests_map', "rejected", rid, None)
  /\ UNCHANGED <<env, users_set, users_map, bst, approved_q, req_counter>>

\* faulty variant: "if amt > req.amount"
SufficientStrict(amt, req) == FloatLt(req.amount, amt)

\* "if amt >= req.amount"
Sufficient(amt, req) == FloatGe(amt, req.amount)

\* req.status = "funded"; the queue rebuilt without rid; save_state(...)
DoFund(rid, amt) ==
  /\ requests_map' = SetStatus(requests_map, rid, "funded")
  /\ approved_q' = remove_by_id(approved_q, rid)
  /\ Persist(users_map, requests_map', "funded", rid, amt)
  /\ UNCHANGED <<env, users_set, users_map, bst, heap, req_counter>>

\* "rid not in requests_map or requests_map[rid].status != 'approved'", negated
IsApproved(rm, rid) == rid \in Keys(rm) /\ Get(rm, rid).status = "approved"

\* faulty variant: the duplicate test never fires
IsRegisteredNever(us, uid) == FALSE

\* "uid in users_set"
IsRegistered(us, uid) == uid \in us

(***************************************************************************)
(* app.py: the Flask handlers                                              *)
(***************************************************************************)
\* register(): POST /register
WebRegister(uid, name, role_text) ==
  /\ Serving("web")
  /\ LET role == Lower(role_text)
     IN IF uid = "" \/ name = "" \/ role \notin Roles
          THEN Fail("ValidationError")
        ELSE IF IsRegistered(users_set, uid)
          THEN Fail("DuplicateUser")
        ELSE DoRegister(uid, name, role)

\* submit(): POST /submit
WebSubmit(sid, amount_text, urgency_text, cap) ==
  /\ Serving("web")
  /\ IF ~HasRole(users_map, sid, "student")
       THEN Fail("RoleError")
     ELSE IF ~FloatParses(amount_text) \/ ~IntParses(urgency_text)
       THEN Fail("ValidationError")
     ELSE /\ Len(requests_map) < cap
          /\ DoSubmit(sid, FloatOf[amount_text], IntOf[urgency_text])

\* faulty variant: the pop made before the role check
WebReviewPopsFirst(admin_id) ==
  /\ Serving("web")
  /\ IF ~HasRole(users_map, admin_id, "admin")
       THEN /\ heap' = pop_heap(heap)
            /\ Report("RoleError", None, None)
            /\ UNCHANGED <<env, running, users_set, users_map, requests_map,
                           bst, approved_q, req_counter, disk>>
     ELSE IF pop_heap_req(heap) = None
       THEN Fail("Empty")
     ELSE /\ heap' = pop_heap(heap)
          /\ Report("returned", pop_heap_req(heap), None)
          /\ UNCHANGED <<env, running, users_set, users_map, requests_map,
                         bst, approved_q, req_counter, disk>>

\* admin_review(): POST /admin/review; the popped request is rendered in the
\* decision form whatever its status
WebReview(admin_id) ==
  /\ Serving("web")
  /\ IF ~HasRole(users_map, admin_id, "admin")
       THEN Fail("RoleError")
     ELSE IF pop_heap_req(heap) = None
       THEN Fail("Empty")
     ELSE /\ heap' = pop_heap(heap)
          /\ Report("returned", pop_heap_req(heap), None)
          /\ UNCHANGED <<env, running, users_set, users_map, requests_map,
                         bst, approved_q, req_counter, disk>>

\* admin_decide(): POST /admin/decide, for whatever request id the form names
WebDecide(rid, decision, qcap) ==
  /\ Serving("web")
  /\ IF rid \notin Keys(requests_map)
       THEN Fail("NotFound")
     ELSE IF decision = "approve"
       THEN /\ Len(approved_q) < qcap
            /\ DoApprove(rid, heap)
     ELSE DoReject(rid, heap)

\* donate(): POST /donate
WebDonate(donor, rid, donation_text) ==
  /\ Serving("web")
  /\ IF ~FloatParses(donation_text)
       THEN Fail("ValidationError")
     ELSE IF ~HasRole(users_map, donor, "donor")
       THEN Fail("RoleError")
     ELSE IF ~IsApproved(requests_map, rid)
       THEN Fail("Conflict")
     ELSE IF Sufficient(FloatOf[donation_text], Get(requests_map, rid))
       THEN DoFund(rid, FloatOf[donation_text])
     ELSE /\ Persist(users_map, requests_map, "InsufficientFunds", rid,
                     FloatOf[donation_text])
          /\ UNCHANGED <<env, mem>>

(***************************************************************************)
(* main.py: the menu loop, one action per option                           *)
(***************************************************************************)
\* option 1
CliRegister(uid, name, role_text) ==
  /\ Serving("cli")
  /\ IF IsRegistered(users_set, uid)
       THEN Fail("DuplicateUser")
     ELSE IF Lower(role_text) \notin Roles
       THEN Fail("ValidationError")
     ELSE DoRegister(uid, name, Lower(role_text))

\* option 2
CliSubmit(sid, amount_text, urgency_text, cap) ==
  /\ Serving("cli")
  /\ IF ~HasRole(users_map, sid, "student")
       THEN Fail("RoleError")
     ELSE IF ~FloatParses(amount_text)
       THEN Fail("ValidationError")
     ELSE IF ~IntParses(urgency_text)
       THEN Fail("ValidationError")
     ELSE /\ Len(requests_map) < cap
          /\ DoSubmit(sid, FloatOf[amount_text], IntOf[urgency_text])

\* option 3: the pop, the staleness test and the decision in one pass
CliReview(aid, dec) ==
  /\ Serving("cli")
  /\ IF ~HasRole(users_map, aid, "admin")
       THEN Fail("RoleError")
     ELSE IF pop_heap_req(heap) = None
       THEN Fail("Empty")
     ELSE LET rid == pop_heap_req(heap)
          IN IF rid \notin Keys(requests_map)
                  \/ Get(requests_map, rid).status # "submitted"
               THEN /\ heap' = pop_heap(heap)
                    /\ Report("AlreadyHandled", None, None)
                    /\ UNCHANGED <<env, running, users_set, users_map,
                                   requests_map, bst, approved_q, req_counter,
                                   disk>>
             ELSE IF Lower(dec) = "y"
               THEN DoApprove(rid, pop_heap(heap))
             ELSE DoReject(rid, pop_heap(heap))

\* option 4
CliDonate(donor, rid, donation_text) ==
  /\ Serving("cli")
  /\ IF ~HasRole(users_map, donor, "donor")
       THEN Fail("RoleError")
     ELSE IF approved_q = <<>>
       THEN Fail("NoApproved")
     ELSE IF ~IsApproved(requests_map, rid)
       THEN Fail("Conflict")
     ELSE IF ~FloatParses(donation_text)
       THEN Fail("ValidationError")
     ELSE IF Sufficient(FloatOf[donation_text], Get(requests_map, rid))
       THEN DoFund(rid, FloatOf[donation_text])
     ELSE /\ Report("InsufficientFunds", rid, FloatOf[donation_text])
          /\ UNCHANGED <<env, running, mem, disk>>

(***************************************************************************)
(* Queries, restarts and the environment                                   *)
(***************************************************************************)
\* "heap[0][2] if heap else None"
heap_top(h) == IF h = <<>> THEN None ELSE h[1][3]

\* faulty variant: the page takes its top request with pop_heap
WebIndexPops ==
  /\ Serving("web")
  /\ heap' = pop_heap(heap)
  /\ Report("rendered", pop_heap_req(heap), None)
  /\ UNCHANGED <<env, running, users_set, users_map, requests_map, bst,
                 approved_q, req_counter, disk>>

\* index(): GET /, the page that shows the users, the approved queue, the
\* requests by amount and the top of the heap
WebIndex ==
  /\ Serving("web")
  /\ Report("rendered", heap_top(heap), None)
  /\ UNCHANGED <<env, running, mem, disk>>

\* option 5: the requests by amount, printed
CliView ==
  /\ Serving("cli")
  /\ Report("viewed", None, None)
  /\ UNCHANGED <<env, running, mem, disk>>

\* the process ends (option 6, a signal, or the uncaught exception that
\* ended it) and either front end is started again on the same data.json
Restart ==
  /\ engine' \in {"cli", "web"}
  /\ users_set' = StartState(disk).users_set
  /\ users_map' = StartState(disk).users_map
  /\ requests_map' = StartState(disk).requests_map
  /\ bst' = StartState(disk).bst
  /\ heap' = StartState(disk).heap
  /\ approved_q' = StartState(disk).approved_q
  /\ req_counter' = StartState(disk).req_counter
  /\ Report("started", None, None)
  /\ running' = TRUE
  /\ threads' = [t \in Threads |-> Idle]
  /\ UNCHANGED <<disk, writable>>

\* the environment: data.json becomes unwritable, or writable again
DiskChanges ==
  /\ writable' = ~writable
  /\ UNCHANGED <<engine, mem, disk, last, running, threads>>

(***************************************************************************)
(* app.py under the threaded development server (app.run): each request is *)
(* handled in its own thread on the module-level state, with no lock, and  *)
(* a thread switch can fall between any two statements of submit() and     *)
(* inside "req_counter += 1".  The steps below are submit() statement by   *)
(* statement.  Two FundingRequest objects made with the same id, student,  *)
(* amount and urgency compare equal, so that the id stands for either in   *)
(* the tree and the heap; the specification that uses these steps submits  *)
(* one amount and one urgency.                                             *)
(***************************************************************************)
InFlight == {t \in Threads : threads[t].pc # "idle"}

\* thread t moves to pc with its locals set to loc
Goto(t, loc) == threads' = [threads EXCEPT ![t] = loc]

\* lines 109-118: the form read and checked
SubmitBegin(t, sid, amount_text, urgency_text, cap) ==
  /\ running
  /\ engine = "web"
  /\ threads[t].pc = "idle"
  /\ IF ~HasRole(users_map, sid, "student")
       THEN Fail("RoleError")
     ELSE IF ~FloatParses(amount_text) \/ ~IntParses(urgency_text)
       THEN Fail("ValidationError")
     ELSE /\ Len(heap) + Cardinality(InFlight) < cap
          /\ Goto(t, [pc |-> "format", sid |-> sid, amount |-> FloatOf[amount_text],
                       urgency |-> IntOf[urgency_text], rid |-> <<>>, n |-> 0])
          /\ UNCHANGED <<engine, writable, running, mem, disk, last>>

\* line 119: rid = f"R{req_counter}"
SubmitFormat(t) ==
  /\ threads[t].pc = "format"
  /\ Goto(t, [threads[t] EXCEPT !.pc = "load", !.rid = Rid(req_counter)])
  /\ UNCHANGED <<engine, writable, running, mem, disk, last>>

\* line 120, first half: req_counter read
SubmitLoad(t) ==
  /\ threads[t].pc = "load"
  /\ Goto(t, [threads[t] EXCEPT !.pc = "store", !.n = req_counter])
  /\ UNCHANGED <<engine, writable, running, mem, disk, last>>

\* line 120, second half: the sum stored in req_counter
SubmitStore(t) ==
  /\ threads[t].pc = "store"
  /\ req_counter' = threads[t].n + 1
  /\ Goto(t, [threads[t] EXCEPT !.pc = "map"])
  /\ UNCHANGED <<engine, writable, running, users_set, users_map, requests_map,
                 bst, heap, approved_q, disk, last>>

\* lines 121-122: requests_map[rid] = fr
SubmitMap(t) ==
  /\ threads[t].pc = "map"
  /\ requests_map' =
       DictSet(requests_map,
               FundingRequest(threads[t].rid, threads[t].sid, threads[t].amount,
                              threads[t].urgency))
  /\ Goto(t, [threads[t] EXCEPT !.pc = "tree"])
  /\ UNCHANGED <<engine, writable, running, users_set, users_map, bst, heap,
                 approved_q, req_counter, disk, last>>

\* line 123: bst.insert(fr)
SubmitTree(t) ==
  /\ threads[t].pc = "tree"
  /\ bst' = bst_insert(bst, threads[t].rid, requests_map)
  /\ Goto(t, [threads[t] EXCEPT !.pc = "heap"])
  /\ UNCHANGED <<engine, writable, running, users_set, users_map, requests_map,
                 heap, approved_q, req_counter, disk, last>>

\* line 124: push_heap(heap, fr)
SubmitHeap(t) ==
  /\ threads[t].pc = "heap"
  /\ heap' =
       push_heap(heap,
                 FundingRequest(threads[t].rid, threads[t].sid, threads[t].amount,
                                threads[t].urgency))
  /\ Goto(t, [threads[t] EXCEPT !.pc = "save"])
  /\ UNCHANGED <<engine, writable, running, users_set, users_map, requests_map,
                 bst, approved_q, req_counter, disk, last>>

\* lines 125-128: the message, save_state and the redirect
SubmitSave(t) ==
  /\ threads[t].pc = "save"
  /\ Persist(users_map, requests_map, "submitted", threads[t].rid, None)
  /\ Goto(t, Idle)
  /\ UNCHANGED <<engine, writable, mem>>

(***************************************************************************)
(* The next-state relation over an input alphabet A: the texts typed at    *)
(* the prompts or posted in the forms, and the caps that keep the run      *)
(* finite.  Every specification below is this relation on its alphabet.    *)
(***************************************************************************)
Step(A) ==
  \/ \E uid \in A.new_ids \cup {""}, name \in A.names, role \in A.roles :
       WebRegister(uid, name, role)
  \/ \E sid \in A.actors, a \in A.amounts, u \in A.urgencies :
       WebSubmit(sid, a, u, A.max_req)
  \/ \E aid \in A.actors : WebReview(aid)
  \/ \E rid \in A.rids, dec \in A.web_decisions : WebDecide(rid, dec, A.max_queue)
  \/ \E donor \in A.actors, rid \in A.rids, d \in A.donations :
       WebDonate(donor, rid, d)
  \/ \E uid \in A.new_ids, name \in A.names, role \in A.roles :
       CliRegister(uid, name, role)
  \/ \E sid \in A.actors, a \in A.amounts, u \in A.urgencies :
       CliSubmit(sid, a, u, A.max_req)
  \/ \E aid \in A.actors, dec \in A.cli_decisions : CliReview(aid, dec)
  \/ \E donor \in A.actors, rid \in A.rids, d \in A.donations :
       CliDonate(donor, rid, d)

\* either front end, started on a data.json that holds file
Begin(file) ==
  /\ engine \in {"cli", "web"}
  /\ Startup(file)

(***************************************************************************)
(* The general specification: every operation with well-formed and         *)
(* malformed input, unknown ids and wrong roles.                           *)
(***************************************************************************)
General ==
  [new_ids |-> {"s1", "x9"},
   names |-> {"Ana", "Bo"},
   roles |-> {"Admin", "donor", "guest"},
   actors |-> {"s1", "a1", "d1", "x9"},
   amounts |-> {"50", "abc"},
   urgencies |-> {"1", "x"},
   donations |-> {"50", "10", "abc"},
   rids |-> {Rid(n) : n \in 1..(MaxReq + 1)},
   web_decisions |-> {"approve", "no"},
   cli_decisions |-> {"y", "Y", "n"},
   max_req |-> MaxReq,
   max_queue |-> MaxQueue]

Init == Begin(SeedFile)

Next == Step(General)

Spec == Init /\ [][Next]_vars

(***************************************************************************)
(* The urgency specification: requests of several urgencies, reviewed,     *)
(* decided and funded in any order; the web decision form is posted for    *)
(* R1 and R2 at any time, which leaves decided requests in the heap.       *)
(***************************************************************************)
ByUrgency ==
  [new_ids |-> {"s1"},
   names |-> {"Ana"},
   roles |-> {"student"},
   actors |-> {"s1", "a1", "d1"},
   amounts |-> {"50"},
   urgencies |-> {"1", "5", "9"},
   donations |-> {"50"},
   rids |-> {Rid(1), Rid(2)},
   web_decisions |-> {"no"},
   cli_decisions |-> {"y", "n"},
   max_req |-> MaxHeap,
   max_queue |-> MaxQueue]

NextUrgency == Step(ByUrgency)

SpecUrgency == Init /\ [][NextUrgency]_vars

(***************************************************************************)
(* The tie-break specification: every request has the same urgency and     *)
(* every review ends in a rejection, so that the order of the reviews is   *)
(* decided by the request ids alone, up to R<MaxTie>.                       *)
(***************************************************************************)
SameUrgency ==
  [new_ids |-> {"s1"},
   names |-> {"Ana"},
   roles |-> {"student"},
   actors |-> {"s1", "a1"},
   amounts |-> {"50"},
   urgencies |-> {"5"},
   donations |-> {"50"},
   rids |-> {Rid(1)},
   web_decisions |-> {"no"},
   cli_decisions |-> {"n"},
   max_req |-> MaxTie,
   max_queue |-> MaxQueue]

NextTie == Step(SameUrgency)

SpecTie == Init /\ [][NextTie]_vars

(***************************************************************************)
(* The funding specification: requests of 50, approved in any order (the   *)
(* web decision form also approves a request again) and offered donations  *)
(* below, at and above that amount, and the text "nan".                    *)
(***************************************************************************)
Funding ==
  [new_ids |-> {"s1"},
   names |-> {"Ana"},
   roles |-> {"student"},
   actors |-> {"s1", "a1", "d1"},
   amounts |-> {"50"},
   urgencies |-> {"1"},
   donations |-> {"10", "50", "100", "nan"},
   rids |-> {Rid(n) : n \in 1..MaxFund},
   web_decisions |-> {"approve"},
   cli_decisions |-> {"y", "n"},
   max_req |-> MaxFund,
   max_queue |-> MaxFund]

NextFunding == Step(Funding)

SpecFunding == Init /\ [][NextFunding]_vars

(***************************************************************************)
(* The amount specification: requests of several amounts, among them the   *)
(* text "nan", which float() accepts, then reviewed, decided and funded.   *)
(***************************************************************************)
ByAmount ==
  [new_ids |-> {"s1"},
   names |-> {"Ana"},
   roles |-> {"student"},
   actors |-> {"s1", "a1", "d1"},
   amounts |-> {"50", "100", "nan"},
   urgencies |-> {"1"},
   donations |-> {"100"},
   rids |-> {Rid(1)},
   web_decisions |-> {"approve", "no"},
   cli_decisions |-> {"y", "n"},
   max_req |-> MaxTree,
   max_queue |-> MaxQueue]

NextAmount == Step(ByAmount)

SpecAmount == Init /\ [][NextAmount]_vars

(***************************************************************************)
(* The restart specification: requests of two amounts (one negative),      *)
(* decided and funded, and the process stopped and started again on its    *)
(* data.json at any time, under either front end.                          *)
(***************************************************************************)
MaxLoad == 3

Sessions ==
  [new_ids |-> {"s1"},
   names |-> {"Ana"},
   roles |-> {"student"},
   actors |-> {"s1", "a1", "d1"},
   amounts |-> {"50", "-5"},
   urgencies |-> {"1"},
   donations |-> {"50"},
   rids |-> {Rid(1), Rid(2)},
   web_decisions |-> {"approve", "no"},
   cli_decisions |-> {"y", "n"},
   max_req |-> MaxLoad,
   max_queue |-> MaxQueue]

NextRestart ==
  \/ Step(Sessions)
  \/ Restart

SpecRestart == Init /\ [][NextRestart]_vars

(***************************************************************************)
(* The pages specification: requests of several urgencies, reviewed and    *)
(* decided, with the index page rendered (and the CLI list printed) at any *)
(* time in between.                                                        *)
(***************************************************************************)
MaxPage == 3

Pages ==
  [new_ids |-> {"s1"},
   names |-> {"Ana"},
   roles |-> {"student"},
   actors |-> {"s1", "a1"},
   amounts |-> {"50"},
   urgencies |-> {"1", "5", "9"},
   donations |-> {"50"},
   rids |-> {Rid(1)},
   web_decisions |-> {"approve", "no"},
   cli_decisions |-> {"y", "n"},
   max_req |-> MaxPage,
   max_queue |-> MaxQueue]

NextPages ==
  \/ Step(Pages)
  \/ WebIndex
  \/ CliView

SpecPages == Init /\ [][NextPages]_vars

(***************************************************************************)
(* The outage specification: registrations, submits, decisions and         *)
(* donations while data.json becomes unwritable and writable again, and    *)
(* restarts of the process (also of one that the failed write has ended).  *)
(***************************************************************************)
MaxOutage == 2

Outage ==
  [new_ids |-> {"x9"},
   names |-> {"Di"},
   roles |-> {"donor"},
   actors |-> {"s1", "a1", "d1"},
   amounts |-> {"50"},
   urgencies |-> {"1"},
   donations |-> {"50", "10"},
   rids |-> {Rid(1)},
   web_decisions |-> {"approve", "no"},
   cli_decisions |-> {"y", "n"},
   max_req |-> MaxOutage,
   max_queue |-> MaxQueue]

NextOutage ==
  \/ Step(Outage)
  \/ Restart
  \/ DiskChanges

SpecOutage == Init /\ [][NextOutage]_vars

(***************************************************************************)
(* The threads specification: submit() requests of one student, for one    *)
(* amount and urgency, handled by the worker threads in any interleaving.  *)
(***************************************************************************)
MaxRace == 3

Racing ==
  [new_ids |-> {"s1"},
   names |-> {"Ana"},
   roles |-> {"student"},
   actors |-> {"s1", "a1"},
   amounts |-> {"50", "abc"},
   urgencies |-> {"1"},
   donations |-> {"50"},
   rids |-> {Rid(1)},
   web_decisions |-> {"no"},
   cli_decisions |-> {"n"},
   max_req |-> MaxRace,
   max_queue |-> MaxQueue]

InitThreads ==
  /\ engine = "web"
  /\ Startup(SeedFile)

NextThreads ==
  \/ \E t \in Threads, sid \in Racing.actors, a \in Racing.amounts,
        u \in Racing.urgencies : SubmitBegin(t, sid, a, u, Racing.max_req)
  \/ \E t \in Threads : SubmitFormat(t)
  \/ \E t \in Threads : SubmitLoad(t)
  \/ \E t \in Threads : SubmitStore(t)
  \/ \E t \in Threads : SubmitMap(t)
  \/ \E t \in Threads : SubmitTree(t)
  \/ \E t \in Threads : SubmitHeap(t)
  \/ \E t \in Threads : SubmitSave(t)

SpecThreads == InitThreads /\ [][NextThreads]_vars

(***************************************************************************)
(* Properties                                                              *)
(***************************************************************************)
Status(rid) == Get(requests_map, rid).status

\* how many times x occurs in the sequence q
Count(q, x) == Cardinality({k \in 1..Len(q) : q[k] = x})

InQueue(rid) == \E k \in 1..Len(approved_q) : approved_q[k] = rid

InHeap(rid) == \E k \in 1..Len(heap) : heap[k][3] = rid

\* C1: the only status changes are submitted->approved, submitted->rejected
\* and approved->funded; a rejected or funded request keeps its status.
C1_OnlyLifecycleTransitions ==
  [][\A i \in 1..Len(requests_map) :
       requests_map'[i].status # requests_map[i].status =>
         <<requests_map[i].status, requests_map'[i].status>> \in
           {<<"submitted", "approved">>, <<"submitted", "rejected">>,
            <<"approved", "funded">>}]_vars

\* C2: a request is in approved_q if and only if its status is approved.
C2_QueueIffApproved ==
  \A rid \in Keys(requests_map) : InQueue(rid) <=> Status(rid) = "approved"

\* C3: an approval succeeds only on a submitted request and appends it to
\* approved_q, and every approved request is in approved_q exactly once.
C3_ApproveOnlySubmittedOnceInOrder ==
  [][/\ last'.result = "approved" =>
          /\ Status(last'.req) = "submitted"
          /\ approved_q' = Append(approved_q, last'.req)
     /\ \A i \in 1..Len(requests_map') :
          requests_map'[i].status = "approved" =>
            Count(approved_q', requests_map'[i].id) = 1]_vars

\* C6: a review never hands back a request whose status is not submitted.
C6_ReviewReturnsOnlySubmitted ==
  last.result = "returned" => Status(last.req) = "submitted"

\* C9: a registration never changes or duplicates an existing record: the
\* records already in users_map stay as they were, no two records share an
\* id, and an attempt reported as a duplicate changes nothing at all.
C9_DuplicateRegistrationRejected ==
  [][/\ \A i \in 1..Len(users_map) :
          i <= Len(users_map') /\ users_map'[i] = users_map[i]
     /\ \A i, j \in 1..Len(users_map') :
          users_map'[i].id = users_map'[j].id => i = j
     /\ Len(users_map') > Len(users_map) =>
          users_map'[Len(users_map')].id \notin users_set
     /\ last'.result = "DuplicateUser" => UNCHANGED <<mem, disk>>]_vars

\* a second registration of s1 and of x9 under another name was turned down
C9_Witness ==
  /\ last.result = "DuplicateUser"
  /\ "x9" \in users_set
  /\ Get(users_map, "s1") = User("s1", "Ana", "student")

\* C10: an operation that ends in an error leaves users_set, users_map,
\* requests_map, bst, heap, approved_q and req_counter unchanged.
C10_ErrorsChangeNothing ==
  [][last'.result \in Errors => UNCHANGED mem]_vars

\* an insufficient donation was turned down while requests are pending
C10_Witness ==
  /\ last.result = "InsufficientFunds"
  /\ heap # <<>>
  /\ approved_q # <<>>

Urgency(rid) == Get(requests_map, rid).urgency

\* the last operation was a review that handed a request over for decision:
\* the web review returns it, the CLI review goes on to decide it
Reviewed ==
  \/ engine = "web" /\ last.result = "returned"
  \/ engine = "cli" /\ last.result \in {"approved", "rejected"}

\* C4: the request a review hands over has the maximum urgency among the
\* submitted requests in the heap.
C4_ReviewReturnsMaxUrgency ==
  Reviewed =>
    \A k \in 1..Len(heap) :
      Status(heap[k][3]) = "submitted" => Urgency(heap[k][3]) <= Urgency(last.req)

\* a review chose among three queued requests of different urgencies
C4_Witness ==
  /\ Reviewed
  /\ Len(heap) >= 2
  /\ \E j, k \in 1..Len(heap) :
       /\ Status(heap[j][3]) = "submitted"
       /\ Status(heap[k][3]) = "submitted"
       /\ Urgency(heap[j][3]) < Urgency(heap[k][3])
       /\ Urgency(heap[k][3]) < Urgency(last.req)

\* the number n of the id R<n>
Suffix(rid) == IntOfDigits(Tail(rid))

\* C5: among requests of equal urgency a review hands over the one created
\* first: no request left in the heap has the same urgency and a smaller
\* number in its id.
C5_TieBrokenByCreationOrder ==
  Reviewed =>
    \A k \in 1..Len(heap) :
      Urgency(heap[k][3]) = Urgency(last.req) =>
        ~(Suffix(heap[k][3]) < Suffix(last.req))

Amount(rid) == Get(requests_map, rid).amount

\* float.__le__
FloatLe(a, b) == ~a.nan /\ ~b.nan /\ a.v <= b.v

\* C7: the amount-ordered view is non-decreasing in amount and holds every
\* request of requests_map exactly once, whatever its status.
C7_ViewSortedAndComplete ==
  LET view == inorder(bst)
  IN /\ \A k \in 1..(Len(view) - 1) : FloatLe(Amount(view[k]), Amount(view[k + 1]))
     /\ \A rid \in Keys(requests_map) : Count(view, rid) = 1
     /\ \A k \in 1..Len(view) : view[k] \in Keys(requests_map)

\* q without the entries that name rid
Without(q, rid) == SelectSeq(q, LAMBDA x : x # rid)

\* C8: a donation of at least the requested amount to an approved request
\* funds it and takes it out of approved_q, the other entries keeping their
\* order; a smaller donation changes nothing, and the same donation made
\* again is turned down again.
C8_DonateAllOrNothing ==
  [][/\ last'.result = "funded" =>
          /\ Status(last'.req) = "approved"
          /\ FloatGe(last'.donation, Amount(last'.req))
          /\ requests_map' = SetStatus(requests_map, last'.req, "funded")
          /\ approved_q' = Without(approved_q, last'.req)
          /\ \A k \in 1..Len(approved_q') : approved_q'[k] # last'.req
     /\ last'.result = "InsufficientFunds" =>
          /\ Status(last'.req) = "approved"
          /\ ~FloatGe(last'.donation, Amount(last'.req))
          /\ UNCHANGED mem
     /\ (/\ last.result = "InsufficientFunds"
         /\ last'.result \in {"funded", "InsufficientFunds"}
         /\ last'.req = last.req
         /\ last'.donation = last.donation) => last'.result = "InsufficientFunds"]_vars

\* the request in the middle of a queue of three was funded
C8_Witness ==
  /\ last.result = "funded"
  /\ last.req = Rid(2)
  /\ approved_q = <<Rid(3), Rid(1)>>

\* the ids held by a heap, in the order of its list
HeapIds(h) == [k \in 1..Len(h) |-> h[k][3]]

\* C11: save_state, then load_state and the startup rebuild, give back the
\* same users and the same requests, a tree that holds every request once,
\* a heap that holds exactly the submitted requests and an approved queue
\* that holds exactly the approved ones.
C11_SaveLoadRoundTrip ==
  LET again == StartState(save_state(users_map, requests_map))
  IN /\ again.users_map = users_map
     /\ again.users_set = users_set
     /\ again.requests_map = requests_map
     /\ \A rid \in Keys(requests_map) :
          /\ Count(inorder(again.bst), rid) = 1
          /\ Count(HeapIds(again.heap), rid) =
               (IF Status(rid) = "submitted" THEN 1 ELSE 0)
          /\ Count(again.approved_q, rid) =
               (IF Status(rid) = "approved" THEN 1 ELSE 0)
     /\ Len(inorder(again.bst)) = Len(requests_map)

\* a process was started on a file that holds a submitted, an approved and a
\* decided request, one of them with a negative amount
C11_Witness ==
  /\ last.result = "started"
  /\ \E i, j, k \in 1..Len(requests_map) :
       /\ requests_map[i].status = "submitted"
       /\ requests_map[j].status = "approved"
       /\ requests_map[k].status \in {"rejected", "funded"}
       /\ requests_map[i].amount.v < 0

\* C12: a submit allocates an id R<n> that is no key of requests_map and
\* whose n is greater than the n of every key; after a start the counter is
\* the greatest n of the loaded ids plus one, or 1 when there is no request.
C12_FreshIncreasingIds ==
  [][/\ last'.result = "submitted" =>
          /\ last'.req \notin Keys(requests_map)
          /\ \A rid \in Keys(requests_map) : Suffix(rid) < Suffix(last'.req)
          /\ last'.req \in Keys(requests_map')
     /\ last'.result = "started" =>
          IF requests_map' = <<>> THEN req_counter' = 1
          ELSE /\ \E rid \in Keys(requests_map') : Suffix(rid) + 1 = req_counter'
               /\ \A rid \in Keys(requests_map') : Suffix(rid) < req_counter']_vars

\* a process started on a file of two requests took the third id
C12_Witness ==
  /\ last.result = "started"
  /\ Len(requests_map) = 2
  /\ req_counter = 3

\* C13: no request of requests_map has a negative amount (a submit with a
\* negative amount is turned down and creates nothing).
C13_NoNegativeAmount ==
  \A i \in 1..Len(requests_map) : FloatGe(requests_map[i].amount, F(0))

\* C14: every request held in the heap has the status submitted.
C14_HeapHoldsOnlySubmitted ==
  \A k \in 1..Len(heap) : Status(heap[k][3]) = "submitted"

\* float.__eq__
FloatEq(a, b) == ~a.nan /\ ~b.nan /\ a.v = b.v

\* C15: of two requests with equal amounts the one inserted earlier (the
\* smaller number in its id) comes earlier in the amount-ordered view.
C15_ViewStableOnTies ==
  LET view == inorder(bst)
  IN \A i, j \in 1..Len(view) :
       (FloatEq(Amount(view[i]), Amount(view[j])) /\ Suffix(view[i]) < Suffix(view[j]))
         => i < j

\* two requests of one amount were inserted with a request of another
\* amount between them
C15_Witness ==
  /\ Len(requests_map) >= 3
  /\ FloatEq(Amount(Rid(1)), Amount(Rid(3)))
  /\ ~Amount(Rid(2)).nan
  /\ ~FloatEq(Amount(Rid(1)), Amount(Rid(2)))
  /\ Len(inorder(bst)) = Len(requests_map)

\* the requests returned by popping the heap h until it is empty
RECURSIVE Drain(_)
Drain(h) ==
  IF h = <<>> THEN <<>> ELSE <<pop_heap_req(h)>> \o Drain(pop_heap(h))

\* C20: popping a heap of N requests N times returns each of them once, in
\* non-increasing urgency, and leaves the heap empty, on which a review
\* reports Empty; a review returns the first request of that order and
\* takes it out; only a submit adds to the heap, and only its new request,
\* so that no request comes back into the heap of a process.
C20_DrainInUrgencyOrder ==
  [][LET d == Drain(heap)
     IN /\ Len(d) = Len(heap)
        /\ \A k \in 1..Len(heap) : Count(d, heap[k][3]) = 1
        /\ \A k \in 1..(Len(d) - 1) : Urgency(d[k]) >= Urgency(d[k + 1])
        /\ Reviewed' => heap # <<>> /\ last'.req = d[1] /\ Drain(heap') = Tail(d)
        /\ last'.result = "Empty" => heap = <<>> /\ heap' = <<>>
        /\ \A rid \in Keys(requests_map) : InHeap(rid)' => InHeap(rid)
        /\ last'.result = "submitted" =>
             /\ last'.req \notin Keys(requests_map)
             /\ Count(HeapIds(heap'), last'.req) = 1]_vars

\* three requests of three urgencies were all reviewed and the next review
\* found the heap empty
C20_Witness ==
  /\ last.result = "Empty"
  /\ heap = <<>>
  /\ Len(requests_map) >= 3
  /\ \E i, j, k \in 1..Len(requests_map) :
       /\ requests_map[i].urgency < requests_map[j].urgency
       /\ requests_map[j].urgency < requests_map[k].urgency

\* C16: rendering the index page changes none of the structures nor
\* data.json, and the top request it shows is the one the review that
\* follows it returns (none, and the review reports Empty, on an empty heap).
C16_RenderIsNonDestructive ==
  [][/\ last'.result \in {"rendered", "viewed"} => UNCHANGED <<mem, disk>>
     /\ last'.result = "rendered" => last'.req = pop_heap_req(heap')
     /\ (last.result = "rendered" /\ last'.result = "returned") =>
          /\ last.req # None
          /\ last'.req = last.req
     /\ (last.result = "rendered" /\ last'.result = "Empty") => last.req = None]_vars

\* the page showed the most urgent of three queued requests
C16_Witness ==
  /\ last.result = "rendered"
  /\ Len(heap) = 3
  /\ last.req # None
  /\ \E k \in 2..3 : Urgency(heap[k][3]) < Urgency(last.req)

\* data.json lists exactly the users and the requests of the memory, each
\* request with its current status (the primed copy is for the next state)
BlobMatches ==
  /\ disk.users = users_map
  /\ Len(disk.requests) = Len(requests_map)
  /\ \A i \in 1..Len(requests_map) :
       /\ disk.requests[i].id = requests_map[i].id
       /\ disk.requests[i].student_id = requests_map[i].student_id
       /\ disk.requests[i].status = requests_map[i].status
       /\ load_amount(json_number(disk.requests[i].amount)) = requests_map[i].amount
       /\ load_urgency(json_number(disk.requests[i].urgency)) = requests_map[i].urgency

\* the results of the operations that end with a save_state call
Saved == {"registered", "submitted", "approved", "rejected", "funded"}

\* C17: when an operation that changes a user or a request has completed
\* and its write succeeded, data.json lists exactly the users and requests
\* of the memory with their current statuses; and only a failed write makes
\* data.json fall behind the memory.
C17_BlobFollowsMemory ==
  [][/\ last'.result \in Saved => BlobMatches'
     /\ (BlobMatches /\ last'.result # "OSError") => BlobMatches']_vars

\* the web front end saved a decision with two requests and four users in
\* memory, and data.json lists them all
C17_Witness ==
  /\ last.result \in {"approved", "rejected"}
  /\ writable
  /\ Len(requests_map) = 2
  /\ BlobMatches
  /\ engine = "web"
  /\ users_set = {"s1", "a1", "d1", "x9"}

\* C18: a failed write does not end the process, and the memory keeps the
\* request the operation was about.
C18_WriteFailureNotFatal ==
  [][last'.result = "OSError" =>
       /\ running'
       /\ last'.req # None => last'.req \in Keys(requests_map')]_vars

\* C19: two submit() handlers never hold the same request id, and the
\* store of a new request in requests_map never lands on an existing key.
C19_SubmitsAreAtomic ==
  [][/\ \A t, u \in Threads :
          (t # u /\ threads'[t].rid # <<>> /\ threads'[u].rid # <<>>)
            => threads'[t].rid # threads'[u].rid
     /\ \A t \in Threads :
          (threads[t].pc = "map" /\ threads'[t].pc = "tree")
            => threads[t].rid \notin Keys(requests_map)]_vars

\* C21: while the CLI runs, the heap holds exactly the requests whose status
\* is submitted, each once, whatever data.json the process was started on;
\* the "already handled" branch of option 3 is never taken.
C21_CliHeapIsTheSubmitted ==
  engine = "cli" =>
    /\ \A rid \in Keys(requests_map) :
         Count(HeapIds(heap), rid) = (IF Status(rid) = "submitted" THEN 1 ELSE 0)
    /\ Len(heap) = Cardinality({rid \in Keys(requests_map) : Status(rid) = "submitted"})
    /\ last.result # "AlreadyHandled"

\* the CLI approved one of three requests, with a decided request in
\* requests_map and a submitted one still in the heap
C21_Witness ==
  /\ engine = "cli"
  /\ last.result = "approved"
  /\ Len(requests_map) = 3
  /\ heap # <<>>
  /\ \E i \in 1..Len(requests_map) : requests_map[i].status \in {"rejected", "funded"}

\* the ids of the approved requests of rm, in the order of rm
ApprovedInStoreOrder(rm) ==
  LET approved == SelectSeq(rm, LAMBDA r : r.status = "approved")
  IN [k \in 1..Len(approved) |-> approved[k].id]

\* C22: a start leaves in approved_q the approved requests in the order of
\* requests_map, which is ascending in the number of the id, whatever the
\* order of approved_q before; the order before is kept only when it was
\* that order.
C22_RestartQueueInStoreOrder ==
  [][last'.result = "started" =>
       /\ approved_q' = ApprovedInStoreOrder(requests_map')
       /\ \A j, k \in 1..Len(approved_q') :
            j < k => Suffix(approved_q'[j]) < Suffix(approved_q'[k])
       /\ approved_q' = approved_q =>
            \A j, k \in 1..Len(approved_q) :
              j < k => Suffix(approved_q[j]) < Suffix(approved_q[k])]_vars

\* a process started on a file whose first two requests are both approved
C22_Witness ==
  /\ last.result = "started"
  /\ approved_q = <<Rid(1), Rid(2)>>

====
